---- MODULE Spec2Model ----
(***************************************************************************)
(* Model of dora_arm_franka/main.py: the tick-driven event loop that polls *)
(* a robot arm over HTTP (get_arm_data), tracks whether the gripper has    *)
(* stayed inside the grasp band long enough (grasp_state) and republishes  *)
(* joints ++ [distance, stable flag] ++ pose as a float32 vector.          *)
(*                                                                         *)
(* Numbers.  A Python float is modelled as an integer count of 2^-28       *)
(* (fixed point, so 1.0 is 2^28 and 0.5 is 2^27); pyarrow's float32        *)
(* conversion keeps 24 significant bits of it.  Timestamps (time.time())   *)
(* are integer tenths of a second.                                         *)
(***************************************************************************)
EXTENDS Integers, Sequences, FiniteSets, TLC

\* ---------------------------------------------------------------- bounds
\* time.time() returns a value in 0..MaxTime (tenths of a second).
MaxTime == 9

\* ------------------------------------------------------ program constants
\* 0.02 and 0.7 in units of 2^-28; 0.8 s in tenths of a second.
min_gripper_distance == 5368709
max_gripper_catch_distance == 187904819
GRASP_STABLE_DURATION == 8

\* ------------------------------------------------------------ value model
\* Python's None / a present value.
None == <<>>
Some(x) == <<x>>
IsNone(o) == o = <<>>
Val(o) == o[1]

\* The integer n as a Python number (units of 2^-28).
FromInt(n) == n * (2 ^ 28)

\* The power of two by which a non-negative n must be divided to fit in the
\* 24-bit significand of an IEEE-754 single.
RECURSIVE Scale24(_)
Scale24(n) == IF n < 2 ^ 24 THEN 1 ELSE 2 * Scale24(n \div 2)

\* Round a non-negative n to 24 significant bits, ties to even.
Round24(n) ==
    LET s == Scale24(n)
        q == n \div s
        r == n % s
        up == (2 * r > s) \/ (2 * r = s /\ q % 2 = 1)
    IN  (IF up THEN q + 1 ELSE q) * s

\* pa.array(..., type=pa.float32()) applied to one element.
Float32(x) == IF x < 0 THEN -Round24(-x) ELSE Round24(x)

\* pa.array(combined_list, type=pa.float32())
pa_array(list) == [i \in 1..Len(list) |-> Float32(list[i])]

\* ------------------------------------------------------------- the inputs
\* Distances the arm may report: 0.01, 0.02 (= band low), 0.3, 0.5,
\* 0.7 (= band high) and 0.9, in units of 2^-28.
Distances == {2684355, min_gripper_distance, 80530637, 134217728,
              max_gripper_catch_distance, 241591910}

\* The joint-angle list the arm reports (-1.5707963 and 3.1).
JointLists == {<<-421657421, 832149914>>}

\* The pose list the arm reports; it may hold more than six elements.
PoseLists == {<<134217728, 0, 80530637, -421657421, 26843546, 0, 241591910>>}

\* How one requests.post(...) call can end: status 200 with the named JSON
\* field, status 200 without the field, another status, or one of the
\* requests.exceptions.RequestException subclasses.
FailKinds == {"non200", "timeout", "connerr", "nofield"}
Responses(vals, dummy) ==
    {[kind |-> "ok", val |-> v] : v \in vals}
        \cup {[kind |-> k, val |-> dummy] : k \in FailKinds}
JointResponses(lists) == Responses(lists, <<>>)
GripperResponses == Responses(Distances, 0)
PoseResponses == Responses(PoseLists, <<>>)

RaisesRequestException(r) == r.kind \in {"timeout", "connerr"}
RaisesKeyError(r) == r.kind = "nofield"
Raises(r) == RaisesRequestException(r) \/ RaisesKeyError(r)

\* A call that is never made, because an earlier one raised.
NotMade == [kind |-> "notmade", val |-> <<>>]

\* The outcomes of the three calls of one get_arm_data, in call order, for
\* an arm whose joint-angle lists are `lists`.
CallOutcomesOf(lists) ==
    {<<rq, NotMade, NotMade>> : rq \in {r \in JointResponses(lists) : Raises(r)}}
        \cup {<<rq, rg, NotMade>> :
                  rq \in {r \in JointResponses(lists) : ~Raises(r)},
                  rg \in {r \in GripperResponses : Raises(r)}}
        \cup {<<rq, rg, rp>> :
                  rq \in {r \in JointResponses(lists) : ~Raises(r)},
                  rg \in {r \in GripperResponses : ~Raises(r)},
                  rp \in PoseResponses}
CallOutcomes == CallOutcomesOf(JointLists)

\* ------------------------------------------------------------ the fetcher
\* arm_data as get_arm_data creates it.
EmptyArmData ==
    [jointstate |-> None, gripper |-> None, gripper_raw |-> None,
     pose |-> None, success |-> FALSE]

AllPresent_IgnoresPose(d) ==
    ~IsNone(d.jointstate) /\ ~IsNone(d.gripper_raw)
\* The completeness test that sets "success".
AllPresent(d) ==
    ~IsNone(d.jointstate) /\ ~IsNone(d.gripper_raw) /\ ~IsNone(d.pose)

MarkSuccess(d) == IF AllPresent(d) THEN [d EXCEPT !.success = TRUE] ELSE d

\* One guarded assignment: the field is written only on status 200.
Store(d, field, r, v) == IF r.kind = "ok" THEN [d EXCEPT ![field] = Some(v)] ELSE d

First6(pose) == <<pose[1], pose[2], pose[3], pose[4], pose[5], pose[6]>>

\* get_arm_data(url) for the responses rq, rg, rp of the three calls, made in
\* this order.  A RequestException ends the try block and the data gathered
\* so far is returned; a KeyError is not caught and leaves the function.
get_arm_data(rq, rg, rp) ==
    LET d0 == EmptyArmData
        d1 == Store(d0, "jointstate", rq, rq.val)
        d2 == Store(d1, "gripper_raw", rg, rg.val)
        d3 == Store(d2, "pose", rp, IF rp.kind = "ok" THEN First6(rp.val) ELSE <<>>)
    IN  IF RaisesRequestException(rq) THEN [raised |-> "none", data |-> d0]
        ELSE IF RaisesKeyError(rq) THEN [raised |-> "KeyError", data |-> d0]
        ELSE IF RaisesRequestException(rg) THEN [raised |-> "none", data |-> d1]
        ELSE IF RaisesKeyError(rg) THEN [raised |-> "KeyError", data |-> d1]
        ELSE IF RaisesRequestException(rp) THEN [raised |-> "none", data |-> d2]
        ELSE IF RaisesKeyError(rp) THEN [raised |-> "KeyError", data |-> d2]
        ELSE [raised |-> "none", data |-> MarkSuccess(d3)]

\* ------------------------------------------------------------ the tracker
\* grasp_state as main creates it.
InitGraspState ==
    [in_range |-> FALSE, enter_time |-> None, is_stable_grasp |-> FALSE]

cur_in_range_Inclusive(cur_gripper) ==
    min_gripper_distance <= cur_gripper /\ cur_gripper <= max_gripper_catch_distance
cur_in_range(cur_gripper) ==
    min_gripper_distance < cur_gripper /\ cur_gripper < max_gripper_catch_distance

DurationReached_Strict(duration) == duration > GRASP_STABLE_DURATION
DurationReached(duration) == duration >= GRASP_STABLE_DURATION

EnterRange_MarksStable(gs, now) ==
    [in_range |-> TRUE, enter_time |-> Some(now), is_stable_grasp |-> TRUE]
\* Fresh entry into the band.
EnterRange(gs, now) ==
    [in_range |-> TRUE, enter_time |-> Some(now), is_stable_grasp |-> FALSE]

StayInRange_NoDwell(gs, now) == [gs EXCEPT !.is_stable_grasp = TRUE]
StayInRange_RestartsTimer(gs, now) ==
    IF DurationReached(now - Val(gs.enter_time))
    THEN [gs EXCEPT !.is_stable_grasp = TRUE]
    ELSE [gs EXCEPT !.enter_time = Some(now)]
StayInRange_Recomputes(gs, now) ==
    [gs EXCEPT !.is_stable_grasp = DurationReached(now - Val(gs.enter_time))]
\* Already in the band: the stable flag is raised once the dwell is reached,
\* and is never lowered here.
StayInRange(gs, now) ==
    IF DurationReached(now - Val(gs.enter_time))
    THEN [gs EXCEPT !.is_stable_grasp = TRUE]
    ELSE gs

LeaveRange_KeepsInRange(gs) ==
    [gs EXCEPT !.enter_time = None, !.is_stable_grasp = FALSE]
LeaveRange_KeepsEnterTime(gs) ==
    [gs EXCEPT !.in_range = FALSE, !.is_stable_grasp = FALSE]
LeaveRange_KeepsStable(gs) == [gs EXCEPT !.in_range = FALSE, !.enter_time = None]
LeaveRange_KeepsTimer(gs) == [gs EXCEPT !.is_stable_grasp = FALSE]
\* Out of the band.
LeaveRange(gs) ==
    [in_range |-> FALSE, enter_time |-> None, is_stable_grasp |-> FALSE]

\* current_time - grasp_state["enter_time"] is computed in the
\* already-in-range branch; with enter_time None it raises a TypeError.
UpdateRaises(gs, cur_gripper) ==
    cur_in_range(cur_gripper) /\ gs.in_range /\ IsNone(gs.enter_time)

\* The state update of one successful tick.
UpdateGraspState(gs, cur_gripper, now) ==
    IF cur_in_range(cur_gripper)
    THEN IF ~gs.in_range THEN EnterRange(gs, now) ELSE StayInRange(gs, now)
    ELSE LeaveRange(gs)

StableFlag(gs) == IF gs.is_stable_grasp THEN FromInt(1) ELSE FromInt(0)

\* arm_data["gripper"] = [distance, stable flag]
GripperPair(cur_gripper, gs) == <<cur_gripper, StableFlag(gs)>>

combined_list_PoseFirst(d) == Val(d.jointstate) \o Val(d.pose) \o Val(d.gripper)
combined_list(d) == Val(d.jointstate) \o Val(d.gripper) \o Val(d.pose)

\* node.send_output("jointstate", pa.array(...), ...); the metadata
\* timestamp (time.time_ns()) is a free clock read and is left out.
send_output(d) == [id |-> "jointstate", data |-> pa_array(combined_list(d))]

\* ------------------------------------------------------------------ state
VARIABLES
    pc,             \* "running" in the event loop, "exited" after it,
                    \* "KeyError" or "TypeError" when that exception left
                    \* main
    event,          \* the loop variable: kind of the event last taken
    calls,          \* how the three HTTP calls of the last get_arm_data
                    \* ended (kept by FetchSpec only)
    arm_data,       \* the reading of the last completed get_arm_data call
    current_time,   \* time.time() read by the last successful tick
    grasp_state,    \* in_range, enter_time, is_stable_grasp
    out,            \* what the handler of the last event sent
    run_first,      \* history: timestamp of the first tick of the current
                    \* run of successful in-band ticks, None outside a run
    run_reached,    \* history: some tick of the current run came at least
                    \* GRASP_STABLE_DURATION after the run's first tick
    found,          \* history: <<in_range, is_stable_grasp>> as the last
                    \* successful tick found them
    prev_run_stable \* history: the run ended by the latest out-of-band
                    \* sample had reached the dwell

vars == <<pc, event, calls, arm_data, current_time, grasp_state, out,
          run_first, run_reached, found, prev_run_stable>>

history == <<run_first, run_reached, found, prev_run_stable>>

Init ==
    /\ pc = "running"
    /\ event = "none"
    /\ calls = <<NotMade, NotMade, NotMade>>
    /\ arm_data = EmptyArmData
    /\ current_time = None
    /\ grasp_state = InitGraspState
    /\ out = <<>>
    /\ run_first = None
    /\ run_reached = FALSE
    /\ found = <<FALSE, FALSE>>
    /\ prev_run_stable = FALSE

\* ---------------------------------------------------------------- history
\* The history variables record what the claims speak of (runs of in-band
\* ticks, the state a tick found); no action reads them.
\* The band of the specification: band_low < d < band_high.
InBand(d) == min_gripper_distance < d /\ d < max_gripper_catch_distance

\* The run history after a successful tick with distance d at time now; it
\* is kept from the band and the timestamps alone, not from grasp_state.
RunFirstAfter(d, now) ==
    IF InBand(d)
    THEN (IF IsNone(run_first) THEN Some(now) ELSE run_first)
    ELSE None

RunReachedAfter(d, now) ==
    /\ InBand(d)
    /\ \/ run_reached /\ ~IsNone(run_first)
       \/ now - Val(RunFirstAfter(d, now)) >= GRASP_STABLE_DURATION

PrevRunStableAfter(d) ==
    IF ~InBand(d) /\ ~IsNone(run_first) THEN run_reached ELSE prev_run_stable

\* ---------------------------------------------------------------- actions
\* The body of the tick branch for a reading with success = True, at the
\* time now read from time.time().
ProcessReading(data, now) ==
    LET cur_gripper == Val(data.gripper_raw)
        gs == UpdateGraspState(grasp_state, cur_gripper, now)
        sent == [data EXCEPT !.gripper = Some(GripperPair(cur_gripper, gs))]
    IN  IF UpdateRaises(grasp_state, cur_gripper)
        THEN /\ pc' = "TypeError"
             /\ current_time' = Some(now)
             /\ arm_data' = data
             /\ out' = <<>>
             /\ UNCHANGED <<grasp_state, history>>
        ELSE /\ pc' = pc
             /\ current_time' = Some(now)
             /\ grasp_state' = gs
             /\ arm_data' = sent
             /\ out' = <<send_output(sent)>>
             /\ run_first' = RunFirstAfter(cur_gripper, now)
             /\ run_reached' = RunReachedAfter(cur_gripper, now)
             /\ found' = <<grasp_state.in_range, grasp_state.is_stable_grasp>>
             /\ prev_run_stable' = PrevRunStableAfter(cur_gripper)

SkipReading_Resets(data) ==
    /\ arm_data' = data
    /\ out' = <<>>
    /\ grasp_state' = LeaveRange(grasp_state)
    /\ UNCHANGED <<current_time, history>>
\* A reading with success = False: nothing else runs in the tick branch.
SkipReading(data) ==
    /\ arm_data' = data
    /\ out' = <<>>
    /\ UNCHANGED <<current_time, grasp_state, history>>

\* event["type"] == "INPUT" and event["id"] == "tick"
Tick(rq, rg, rp) ==
    LET res == get_arm_data(rq, rg, rp)
    IN  /\ pc = "running"
        /\ event' = "tick"
        /\ UNCHANGED calls
        /\ IF res.raised # "none"
           THEN /\ pc' = "KeyError"
                /\ out' = <<>>
                /\ UNCHANGED <<arm_data, current_time, grasp_state, history>>
           ELSE IF res.data.success
                THEN \E now \in 0..MaxTime : ProcessReading(res.data, now)
                ELSE pc' = pc /\ SkipReading(res.data)

\* event["type"] == "INPUT" and event["id"] == "stop": a message is printed.
Stop ==
    /\ pc = "running"
    /\ event' = "stop"
    /\ out' = <<>>
    /\ UNCHANGED <<pc, calls, arm_data, current_time, grasp_state, history>>

\* Any other event: neither branch of the loop body matches.
OtherEvent ==
    /\ pc = "running"
    /\ event' = "other"
    /\ out' = <<>>
    /\ UNCHANGED <<pc, calls, arm_data, current_time, grasp_state, history>>

\* The node's event stream ends and the for loop is left.
StreamEnd ==
    /\ pc = "running"
    /\ pc' = "exited"
    /\ out' = <<>>
    /\ UNCHANGED <<event, calls, arm_data, current_time, grasp_state, history>>

Next ==
    \/ \E c \in CallOutcomes : Tick(c[1], c[2], c[3])
    \/ Stop
    \/ OtherEvent
    \/ StreamEnd

Spec == Init /\ [][Next]_vars

\* --------------------------------------------- the loop on a steady clock
\* The same loop when time.time() never goes back: each successful tick
\* reads a time no earlier than the one before it read.
SteadyClock ==
    IsNone(current_time) \/ Val(current_time') >= Val(current_time)

\* Only a tick reads the clock; the other events leave current_time alone.
MonotoneNext ==
    \/ \E c \in CallOutcomes : Tick(c[1], c[2], c[3]) /\ SteadyClock
    \/ Stop
    \/ OtherEvent
    \/ StreamEnd

MonotoneSpec == Init /\ [][MonotoneNext]_vars

\* ------------------------------------------------- the fetcher on its own
\* get_arm_data applied to every outcome of its three calls, with the
\* outcomes kept in `calls`; a second joint-angle list (0.1 and 0.5) widens
\* the inputs.
FetchJointLists == JointLists \cup {<<26843546, 134217728>>}

Fetch(rq, rg, rp) ==
    LET res == get_arm_data(rq, rg, rp)
    IN  /\ pc = "running"
        /\ event' = "tick"
        /\ calls' = <<rq, rg, rp>>
        /\ out' = <<>>
        /\ IF res.raised # "none"
           THEN pc' = "KeyError" /\ UNCHANGED arm_data
           ELSE pc' = pc /\ arm_data' = res.data
        /\ UNCHANGED <<current_time, grasp_state, history>>

FetchNext == \E c \in CallOutcomesOf(FetchJointLists) : Fetch(c[1], c[2], c[3])

FetchSpec == Init /\ [][FetchNext]_vars

TypeOK ==
    /\ pc \in {"running", "exited", "KeyError", "TypeError"}
    /\ event \in {"none", "tick", "stop", "other"}
    /\ grasp_state.in_range \in BOOLEAN
    /\ grasp_state.is_stable_grasp \in BOOLEAN
    /\ Len(out) <= 1

\* ----------------------------------------------------- reading the state
\* The last event was a tick whose reading had success = True / False.
TickProcessed == pc = "running" /\ event = "tick" /\ arm_data.success
TickSkipped == pc = "running" /\ event = "tick" /\ ~arm_data.success

Distance == Val(arm_data.gripper_raw)
Now == Val(current_time)
JointCount == Len(Val(arm_data.jointstate))

\* The stable-flag element of the vector just sent.
EmittedFlag == out[1].data[JointCount + 2]
FlagIs(b) == out # <<>> /\ EmittedFlag = FromInt(b)

C2_OutOfBandClears ==
    (TickProcessed /\ (Distance <= min_gripper_distance
                           \/ Distance >= max_gripper_catch_distance))
        => /\ FlagIs(0)
           /\ grasp_state.in_range = FALSE
           /\ IsNone(grasp_state.enter_time)
           /\ grasp_state.is_stable_grasp = FALSE

\* A sample exactly on the upper bound, taken while the grasp was stable.
C2_Witness ==
    /\ TickProcessed /\ Distance = max_gripper_catch_distance
    /\ found = <<TRUE, TRUE>> /\ FlagIs(0)

\* C3: after an out-of-band sample the stable flag becomes 1 only on a tick
\* that comes at least GRASP_STABLE_DURATION after the re-entry tick.
C3_DwellRestartsAfterExit ==
    (TickProcessed /\ InBand(Distance) /\ FlagIs(1) /\ ~found[2])
        => /\ ~IsNone(run_first)
           /\ Now - Val(run_first) >= GRASP_STABLE_DURATION

\* A tick in a run re-entered at 0.4 s, after a run that had become stable:
\* at 0.9 s it is still not stable.
C3_Witness ==
    /\ TickProcessed /\ InBand(Distance) /\ prev_run_stable
    /\ run_first = Some(4) /\ Now = 9 /\ FlagIs(0)

\* C4: a successful in-band tick taken while in_range was false sets
\* enter_time to the tick's timestamp and emits stable flag 0.
C4_FreshEntry ==
    [][(TickProcessed' /\ InBand(Distance') /\ ~grasp_state.in_range)
          => /\ grasp_state'.enter_time = current_time'
             /\ grasp_state'.in_range
             /\ FlagIs(0)']_vars

\* Re-entry after the sample that ended a stable run.
C4_Witness ==
    /\ TickProcessed /\ InBand(Distance)
    /\ found = <<FALSE, FALSE>> /\ prev_run_stable
    /\ grasp_state.enter_time = current_time /\ FlagIs(0)

\* C5: a tick whose reading has success = False sends nothing and leaves
\* in_range, enter_time and is_stable unchanged; grasp_state changes only
\* on a tick whose reading has success = True.
C5_SkippedTickChangesNothing ==
    [][/\ TickSkipped' => (out' = <<>> /\ grasp_state' = grasp_state)
       /\ (grasp_state' # grasp_state) => TickProcessed']_vars

\* A skipped tick in the middle of a stable run.
C5_Witness ==
    /\ TickSkipped /\ out = <<>>
    /\ grasp_state.in_range /\ grasp_state.is_stable_grasp

\* C6: after a stop input is taken the loop handles no further event and
\* sends nothing.
C6_StopEndsLoop ==
    [][event = "stop" => (event' = "stop" /\ out' = <<>>)]_vars

\* C7: no fetch failure is fatal: the loop never ends with an exception.
C7_NoFetchFailureIsFatal == pc \in {"running", "exited"}

\* C8: the reading returned by get_arm_data has success = True iff all three
\* calls returned status 200 with their value, iff the joint angles, the
\* distance and the pose are all present in it.
C8_SuccessIffAllPresent ==
    (pc = "running" /\ event = "tick")
        => /\ arm_data.success
                <=> (\A i \in 1..3 : calls[i].kind = "ok")
           /\ arm_data.success
                <=> /\ ~IsNone(arm_data.jointstate)
                    /\ ~IsNone(arm_data.gripper_raw)
                    /\ ~IsNone(arm_data.pose)
           /\ arm_data.success
                => /\ arm_data.jointstate = Some(calls[1].val)
                   /\ arm_data.gripper_raw = Some(calls[2].val)
                   /\ Len(Val(arm_data.pose)) = 6

\* Joint angles and distance arrived, the pose call returned another status.
C8_Witness ==
    /\ pc = "running" /\ event = "tick"
    /\ calls[1].kind = "ok" /\ calls[2].kind = "ok" /\ calls[3].kind = "non200"
    /\ ~IsNone(arm_data.jointstate) /\ ~IsNone(arm_data.gripper_raw)
    /\ ~arm_data.success

\* The vector a successful tick is to send, before its conversion.
ExpectedVector ==
    Val(arm_data.jointstate)
        \o <<Distance, IF grasp_state.is_stable_grasp THEN FromInt(1) ELSE FromInt(0)>>
        \o Val(arm_data.pose)

\* C9 as stated: every successful tick sends exactly one vector, equal to
\* joint angles ++ [distance, stable flag] ++ pose, the distance unchanged.
C9_VectorIsExact ==
    TickProcessed
        => /\ Len(out) = 1
           /\ Len(out[1].data) = JointCount + 2 + 6
           /\ out[1].data = ExpectedVector

\* C9 as amended: every successful tick sends exactly one vector of length
\* joint_count + 2 + 6 whose elements are, in order, the float32 values of
\* joint angles ++ [distance, stable flag] ++ pose, the flag being 1 iff
\* is_stable is true after the tick's update.
C9_VectorIsFloat32 ==
    TickProcessed
        => /\ Len(out) = 1
           /\ out[1].id = "jointstate"
           /\ Len(out[1].data) = JointCount + 2 + 6
           /\ \A i \in 1..(JointCount + 2 + 6) :
                  out[1].data[i] = Float32(ExpectedVector[i])

\* A stable tick at distance 0.3, which float32 does not hold exactly.
C9_Witness ==
    /\ TickProcessed /\ Distance = 80530637
    /\ grasp_state.is_stable_grasp
    /\ out[1].data[JointCount + 1] = 80530640
    /\ out[1].data[JointCount + 2] = FromInt(1)

\* C10: a skipped tick inside a run leaves enter_time at the timestamp of
\* the run's first tick, and the successful in-band tick after it emits
\* stable flag 1 if it comes at least GRASP_STABLE_DURATION after the run's
\* first tick, and 0 if the dwell has not been reached.
C10_SkippedTicksKeepDwell ==
    [][/\ (TickSkipped' /\ ~IsNone(run_first))
            => grasp_state'.enter_time = run_first
       /\ (TickSkipped /\ ~IsNone(run_first)
              /\ TickProcessed' /\ InBand(Distance'))
            => /\ grasp_state'.enter_time = run_first
               /\ (Now' - Val(run_first) >= GRASP_STABLE_DURATION)
                      => FlagIs(1)'
               /\ (Now' - Val(run_first) < GRASP_STABLE_DURATION /\ ~run_reached)
                      => FlagIs(0)']_vars

\* A skipped tick inside a run that began at 0 s and is not yet stable.
C10_Witness ==
    /\ TickSkipped /\ run_first = Some(0) /\ ~run_reached
    /\ grasp_state.in_range /\ grasp_state.enter_time = Some(0)
    /\ ~grasp_state.is_stable_grasp

\* C11: within one run, once the stable flag has been 1 it is 1 on every
\* later successful in-band tick, whatever its distance and its timestamp.
C11_StableStaysInRun ==
    [][((run_reached \/ grasp_state.is_stable_grasp)
            /\ TickProcessed' /\ InBand(Distance'))
          => FlagIs(1)']_vars

\* A tick of a stable run at distance 0.3 whose timestamp lies before the
\* run's first one (the clock jumped back).
C11_Witness ==
    /\ TickProcessed /\ Distance = 80530637
    /\ found = <<TRUE, TRUE>> /\ run_reached
    /\ Now < Val(run_first) /\ FlagIs(1)

\* C12: in every state, enter_time is set iff in_range is true.
C12_EnterTimeIffInRange ==
    (~IsNone(grasp_state.enter_time)) <=> grasp_state.in_range

\* Between ticks, in a run entered at 0.3 s after an earlier run had ended.
C12_Witness ==
    /\ event = "other" /\ prev_run_stable
    /\ grasp_state.in_range /\ grasp_state.enter_time = Some(3)

\* C13: in every state, is_stable true implies in_range true.
C13_StableImpliesInRange ==
    grasp_state.is_stable_grasp => grasp_state.in_range

\* A stable grasp, seen after a stop input.
C13_Witness ==
    /\ event = "stop"
    /\ grasp_state.is_stable_grasp /\ grasp_state.in_range

\* C14: whenever in_range is true, enter_time is the timestamp of the first
\* tick of the current run of successful in-band ticks; a successful in-band
\* tick taken while in range leaves enter_time and in_range unchanged.
C14_EnterTimeIsRunStart ==
    [][/\ grasp_state'.in_range => grasp_state'.enter_time = run_first'
       /\ (grasp_state.in_range /\ TickProcessed' /\ InBand(Distance'))
            => /\ grasp_state'.enter_time = grasp_state.enter_time
               /\ grasp_state'.in_range]_vars

\* A tick at 0.5 s in a run that began at 0 s and is not yet stable.
C14_Witness ==
    /\ TickProcessed /\ InBand(Distance) /\ found = <<TRUE, FALSE>>
    /\ Now = 5 /\ run_first = Some(0)
    /\ grasp_state.enter_time = Some(0) /\ FlagIs(0)

\* C15: the tracker update cannot fail: no tick computes now - enter_time
\* with enter_time None, so main is never left with a TypeError.
C15_UpdateCannotFail == pc # "TypeError"

\* The elapsed time was computed, and came out negative, on a tick that
\* found the tracker in range: the clock had jumped back behind enter_time.
C15_Witness ==
    /\ TickProcessed /\ InBand(Distance) /\ found = <<TRUE, FALSE>>
    /\ ~IsNone(grasp_state.enter_time)
    /\ Now < Val(grasp_state.enter_time)

\* C16: when the timestamps of successive successful ticks never decrease,
\* every tick that sends stable flag 1 has now - enter_time >=
\* GRASP_STABLE_DURATION.
C16_FlagOnlyAfterDwell ==
    (TickProcessed /\ FlagIs(1))
        => /\ ~IsNone(grasp_state.enter_time)
           /\ Now - Val(grasp_state.enter_time) >= GRASP_STABLE_DURATION

\* A later tick of a run that began at 0.1 s and was already stable.
C16_Witness ==
    /\ TickProcessed /\ FlagIs(1) /\ found = <<TRUE, TRUE>>
    /\ grasp_state.enter_time = Some(1) /\ Now = 9

====
